---------------------------- MODULE Spec2Model ----------------------------
(***************************************************************************)
(* HyperLogLogPlusMinus (src/src/hyperloglogplus.h): the sparse/dense      *)
(* counter, its 32-bit sparse encoding, add, merge and reset.              *)
(*                                                                         *)
(* Machine words are sequences of bits, most significant bit first, so     *)
(* that a uint32_t is a sequence of 32 bits and a uint64_t one of 64 bits; *)
(* shifts drop the bits that leave the word, as the C++ operators do.      *)
(***************************************************************************)
EXTENDS Integers, Sequences, FiniteSets, TLC

VARIABLES hll, seen, hist, cons, err, allowed, est, cp, ch, cenc, cdec, cpc

vars == <<hll, seen, hist, cons, err, allowed, est, cp, ch, cenc, cdec, cpc>>

hllVars == <<hll, seen, hist, cons, err, allowed, est>>

codecVars == <<cp, ch, cenc, cdec, cpc>>

---------------------------------------------------------------------------
(* Bounds of the model *)

\* keys 1..NumKeys are fed to the counters of Spec
NumKeys == 6

\* the hashes of SpecCodec have at most MaxOnes one-bits
MaxOnes == 2

---------------------------------------------------------------------------
(* Program constants *)

pPrime == 25

MinPrecision == 4

MaxPrecision == 18

---------------------------------------------------------------------------
(* Machine words *)

Zero(w) == [i \in 1..w |-> 0]

\* the word of width w with one-bits exactly at the positions of S (LSB 0 numbering)
WordOf(S, w) == [i \in 1..w |-> IF (w - i) \in S THEN 1 ELSE 0]

\* a small number n (n < 2^31) as a word of width w
FromNat(n, w) == [i \in 1..w |-> IF w - i >= 31 THEN 0 ELSE (n \div (2 ^ (w - i))) % 2]

RECURSIVE ToNatUpTo(_, _)
ToNatUpTo(x, n) == IF n = 0 THEN 0 ELSE 2 * ToNatUpTo(x, n - 1) + x[n]

\* the number a word holds (used where the value is below 2^31)
ToNat(x) == ToNatUpTo(x, Len(x))

\* x << n
Shl(x, n) == [i \in 1..Len(x) |-> IF i + n <= Len(x) THEN x[i + n] ELSE 0]

\* x >> n
Shr(x, n) == [i \in 1..Len(x) |-> IF i - n >= 1 THEN x[i - n] ELSE 0]

BitOr(x, y) == [i \in 1..Len(x) |-> IF x[i] = 1 \/ y[i] = 1 THEN 1 ELSE 0]

BitAnd(x, y) == [i \in 1..Len(x) |-> IF x[i] = 1 /\ y[i] = 1 THEN 1 ELSE 0]

\* x - 1, modulo 2^width
Dec(x) ==
  LET w == Len(x)
      ones == {i \in 1..w : x[i] = 1}
  IN  IF ones = {} THEN [i \in 1..w |-> 1]
      ELSE LET j == CHOOSE i \in ones : \A k \in ones : k <= i
           IN  [i \in 1..w |-> IF i < j THEN x[i] ELSE IF i = j THEN 0 ELSE 1]

\* (uint32_t) of a 64-bit word
Low32(x) == [i \in 1..32 |-> x[i + 32]]

\* __builtin_clz / __builtin_clzl on a non-zero word
builtin_clz(x) ==
  LET ones == {i \in 1..Len(x) : x[i] = 1}
  IN  (CHOOSE i \in ones : \A k \in ones : i <= k) - 1

clz(x) == IF x = Zero(Len(x)) THEN Len(x) ELSE builtin_clz(x)

\* extractBits with the bitmask left at position 0 (the "<< lo" forgotten)
extractBits_unshifted_mask(value, hi, lo) ==
  LET w == Len(value)
      bitmask == Dec(Shl(FromNat(1, w), hi - lo))
      result == BitAnd(value, bitmask)
  IN  Shr(result, lo)

extractBits(value, hi, lo) ==
  LET w == Len(value)
      bitmask == Shl(Dec(Shl(FromNat(1, w), hi - lo)), lo)
      result == BitAnd(value, bitmask)
  IN  Shr(result, lo)

extractHighBits(bits, hi) == Shr(bits, Len(bits) - hi)

get_index(hash_value, p) == ToNat(Shr(hash_value, Len(hash_value) - p))

get_trailing_ones(p, w) == Dec(Shl(FromNat(1, w), p))

get_rank(hash_value, p) ==
  LET rank_bits == BitOr(Shl(hash_value, p), get_trailing_ones(p, Len(hash_value)))
  IN  clz(rank_bits) + 1

---------------------------------------------------------------------------
(* The sparse encoding *)

encodeHashIn32Bit(hash_value, p) ==
  LET idx == Low32(Shl(extractHighBits(hash_value, pPrime), 32 - pPrime))
  IN  IF Shl(idx, p) = Zero(32)
      THEN LET additional_rank == get_rank(hash_value, pPrime)
           IN  BitOr(BitOr(idx, FromNat(additional_rank * 2, 32)), FromNat(1, 32))
      ELSE idx

\* getIndexAndRankFromEncodedHash without the pPrime - p ranks the flag stands for
getIndexAndRankFromEncodedHash_no_offset(encoded_hash_value, p) ==
  LET idx == get_index(encoded_hash_value, p)
  IN  IF BitAnd(encoded_hash_value, FromNat(1, 32)) = FromNat(1, 32)
      THEN [idx |-> idx, rank |-> ToNat(extractBits(encoded_hash_value, 7, 1))]
      ELSE [idx |-> idx, rank |-> get_rank(encoded_hash_value, p)]

getIndexAndRankFromEncodedHash(encoded_hash_value, p) ==
  LET idx == get_index(encoded_hash_value, p)
  IN  IF BitAnd(encoded_hash_value, FromNat(1, 32)) = FromNat(1, 32)
      THEN [idx |-> idx,
            rank |-> (pPrime - p) + ToNat(extractBits(encoded_hash_value, 7, 1))]
      ELSE [idx |-> idx, rank |-> get_rank(encoded_hash_value, p)]

---------------------------------------------------------------------------
(* The counter *)

Inst == {"A", "B"}

Keys == 1..NumKeys

\* bit_mixer: the injected 64-bit mixing function, given by its table on
\* the keys of the model (positions of the one-bits of each hash, LSB 0)
MixerTable ==
  <<{61, 60, 38},        \* index 3, bits p..pPrime zero, rank(h, 25) = 1
    {61, 60, 36},        \* the same 25-bit index, rank(h, 25) = 3
    {61, 60, 58},        \* index 3, a one-bit between p and pPrime
    {63, 61, 59, 5},     \* index 10, rank 1
    {63, 61},            \* index 10, no other bit: the largest rank
    {63, 62, 61, 60, 39},\* index 15, the lowest bit of the 25-bit index
    {},                  \* the hash 0
    {62, 40, 0},
    {60, 59, 38},
    {62, 61, 37, 2}>>

KeyIds == 1..Len(MixerTable)

\* the precisions the counters of the model are constructed with
ModelPrecisions == {MinPrecision, MinPrecision + 1}

\* the hash of every key, computed once
MixedHash == [k \in KeyIds |-> WordOf(MixerTable[k], 64)]

bit_mixer(item) == MixedHash[item]

\* encodeHashIn32Bit(bit_mixer(k)) under precision p, computed once per key
EncodedHash ==
  [p \in ModelPrecisions |-> [k \in KeyIds |-> encodeHashIn32Bit(bit_mixer(k), p)]]

AllEncoded == {EncodedHash[p][k] : p \in ModelPrecisions, k \in KeyIds}

\* getIndexAndRankFromEncodedHash under precision p, computed once per word
DecodedHash ==
  [p \in ModelPrecisions |-> [e \in AllEncoded |-> getIndexAndRankFromEncodedHash(e, p)]]

\* get_index and get_rank of bit_mixer(k) under precision p, computed once per key
IndexAndRank ==
  [p \in ModelPrecisions |->
    [k \in KeyIds |-> [idx |-> get_index(bit_mixer(k), p), rank |-> get_rank(bit_mixer(k), p)]]]

ZeroRegisters(m) == [i \in 1..m |-> 0]

\* the constructor
HyperLogLogPlusMinus(precision, sparse) ==
  [p |-> precision,
   m |-> 2 ^ precision,
   sparse |-> sparse,
   sparseList |-> {},
   M |-> IF sparse THEN <<>> ELSE ZeroRegisters(2 ^ precision)]

\* insert_hash keeping the first word of every 25-bit index
insert_hash_first_wins(uset, val) ==
  IF \E e \in uset : extractHighBits(e, pPrime) = extractHighBits(val, pPrime)
  THEN uset
  ELSE uset \cup {val}

\* SparseListType is unordered_set<uint32_t>, so the template overload runs
insert_hash(uset, val) == uset \cup {val}

\* for (val : other->sparseList) insert_hash(this->sparseList, val, pPrime)
RECURSIVE insertAll(_, _)
insertAll(uset, todo) ==
  IF todo = {} THEN uset
  ELSE LET val == CHOOSE x \in todo : TRUE
       IN  insertAll(insert_hash(uset, val), todo \ {val})

RECURSIVE addToRegistersLoop(_, _, _)
addToRegistersLoop(M, p, todo) ==
  IF todo = {} THEN M
  ELSE LET e == CHOOSE x \in todo : TRUE
           ir == DecodedHash[p][e]
       IN  addToRegistersLoop(
             IF ir.rank > M[ir.idx + 1] THEN [M EXCEPT ![ir.idx + 1] = ir.rank] ELSE M,
             p, todo \ {e})

addToRegisters(self, sparseList) ==
  IF Cardinality(sparseList) = 0 THEN self
  ELSE [self EXCEPT !.M = addToRegistersLoop(self.M, self.p, sparseList)]

\* switchToNormalRepresentation leaving the sparse list uncleared
switchToNormalRepresentation_keep_list(self) ==
  LET s1 == [self EXCEPT !.sparse = FALSE, !.M = ZeroRegisters(self.m)]
  IN  IF Cardinality(s1.sparseList) > 0
      THEN addToRegisters(s1, s1.sparseList)
      ELSE s1

switchToNormalRepresentation(self) ==
  LET s1 == [self EXCEPT !.sparse = FALSE, !.M = ZeroRegisters(self.m)]
  IN  IF Cardinality(s1.sparseList) > 0
      THEN [addToRegisters(s1, s1.sparseList) EXCEPT !.sparseList = {}]
      ELSE s1

\* add storing the rank in the register whether or not it is the larger
add_dense_overwrite(self, item) ==
  IF self.sparse
  THEN LET encoded_hash_value == EncodedHash[self.p][item]
           s1 == [self EXCEPT !.sparseList = insert_hash(@, encoded_hash_value)]
       IN  IF Cardinality(s1.sparseList) > s1.m \div 4
           THEN switchToNormalRepresentation(s1)
           ELSE s1
  ELSE LET idx == IndexAndRank[self.p][item].idx
           rank == IndexAndRank[self.p][item].rank
       IN  [self EXCEPT !.M[idx + 1] = rank]

add(self, item) ==
  IF self.sparse
  THEN LET encoded_hash_value == EncodedHash[self.p][item]
           s1 == [self EXCEPT !.sparseList = insert_hash(@, encoded_hash_value)]
       IN  IF Cardinality(s1.sparseList) > s1.m \div 4
           THEN switchToNormalRepresentation(s1)
           ELSE s1
  ELSE LET idx == IndexAndRank[self.p][item].idx
           rank == IndexAndRank[self.p][item].rank
       IN  IF rank > self.M[idx + 1]
           THEN [self EXCEPT !.M[idx + 1] = rank]
           ELSE self

\* reset without M.clear()
reset_keep_registers(self) == [self EXCEPT !.sparse = TRUE, !.sparseList = {}]

reset(self) == [self EXCEPT !.sparse = TRUE, !.sparseList = {}, !.M = <<>>]

\* the register loop of merge copying the other register instead of keeping the larger
mergeRegisters_overwrite(M, otherM) ==
  [i \in 1..Len(M) |-> IF i <= Len(otherM) THEN otherM[i] ELSE M[i]]

mergeRegisters(M, otherM) ==
  [i \in 1..Len(M) |-> IF i <= Len(otherM) /\ otherM[i] > M[i] THEN otherM[i] ELSE M[i]]

\* merge throws std::invalid_argument
merge_throws(self, other) == self.p # other.p

\* merge comparing the precisions only after it has merged
merge_check_after(self, other) ==
  IF self.sparse /\ other.sparse
  THEN IF Cardinality(self.sparseList) + Cardinality(other.sparseList) > self.m
       THEN addToRegisters(switchToNormalRepresentation(self), other.sparseList)
       ELSE [self EXCEPT !.sparseList = insertAll(@, other.sparseList)]
  ELSE IF other.sparse
  THEN addToRegisters(self, other.sparseList)
  ELSE LET s1 == IF self.sparse THEN switchToNormalRepresentation(self) ELSE self
       IN  [s1 EXCEPT !.M = mergeRegisters(@, other.M)]

\* merge of a dense counter into a sparse one dropping the sparse list unread
merge_drop_sparse(self, other) ==
  IF merge_throws(self, other) THEN self
  ELSE IF self.sparse /\ other.sparse
  THEN IF Cardinality(self.sparseList) + Cardinality(other.sparseList) > self.m
       THEN addToRegisters(switchToNormalRepresentation(self), other.sparseList)
       ELSE [self EXCEPT !.sparseList = insertAll(@, other.sparseList)]
  ELSE IF other.sparse
  THEN addToRegisters(self, other.sparseList)
  ELSE [self EXCEPT !.sparse = FALSE, !.sparseList = {}, !.M = other.M]

\* merge: the counter after the call (as it was, if the call throws)
merge(self, other) ==
  IF merge_throws(self, other) THEN self
  ELSE IF self.sparse /\ other.sparse
  THEN IF Cardinality(self.sparseList) + Cardinality(other.sparseList) > self.m
       THEN addToRegisters(switchToNormalRepresentation(self), other.sparseList)
       ELSE [self EXCEPT !.sparseList = insertAll(@, other.sparseList)]
  ELSE IF other.sparse
  THEN addToRegisters(self, other.sparseList)
  ELSE LET s1 == IF self.sparse THEN switchToNormalRepresentation(self) ELSE self
       IN  [s1 EXCEPT !.M = mergeRegisters(@, other.M)]

---------------------------------------------------------------------------
(* The estimators.  A double is held as a whole number of millionths.     *)

FixedOne == 10 ^ 6

\* static const uint32_t mPrime = 1 << (pPrime -1)
mPrime == 2 ^ (pPrime - 1)

\* threshold[], from precision 4 to precision 18
threshold == <<10, 20, 40, 80, 220, 400, 900, 1800, 3100, 6500, 11500, 20000, 50000, 120000, 350000>>

\* what the last call returned, if it was a call of an estimator
NoEstimate == [kind |-> "none"]

\* m * sum over k >= 1 of ((d/m)^k) / k, term being m * (d/m)^k: the series of
\* m * log(m / (m - d))
RECURSIVE LogSeries(_, _, _, _)
LogSeries(term, d, m, k) ==
  IF term = 0 THEN 0
  ELSE (term \div k) + LogSeries((term * d) \div m, d, m, k + 1)

\* linearCounting: double(m) * log(double(m)/double(v)), or the exception
linearCounting(m, v) ==
  IF v > m
  THEN [thrown |-> TRUE, value |-> 0]
  ELSE [thrown |-> FALSE, value |-> LogSeries((m - v) * FixedOne, m - v, m, 1)]

\* the conversion of a double to uint64_t
ToUint64(x) == x \div FixedOne

countZeros(M) == Cardinality({i \in 1..Len(M) : M[i] = 0})

\* cardinality(): the branch taken, the arguments of linearCounting, its
\* result and the number returned.  The raw estimate and its bias correction
\* read the tables of hyperloglogbias.h; that branch returns no number here.
cardinality(self) ==
  IF self.sparse
  THEN LET v == mPrime - Cardinality(self.sparseList)
           lc == linearCounting(mPrime, v)
       IN  [kind |-> "cardinality", sparse |-> TRUE, branch |-> "linear",
            m |-> mPrime, v |-> v, lc |-> lc.value, value |-> ToUint64(lc.value)]
  ELSE LET v == countZeros(self.M)
           lc == linearCounting(self.m, v)
           lc_estimate == ToUint64(lc.value)
       IN  IF v # 0 /\ lc_estimate <= threshold[self.p - 4 + 1]
           THEN [kind |-> "cardinality", sparse |-> FALSE, branch |-> "linear",
                 m |-> self.m, v |-> v, lc |-> lc.value, value |-> lc_estimate]
           ELSE [kind |-> "cardinality", sparse |-> FALSE, branch |-> "raw",
                 m |-> self.m, v |-> v]

\* the histogram C of length q + 2 (C[1] counts rank 0): the entries that
\* the ranks of the multiset "ranks" (rank -> how often) increment
HistogramOf(count, q) ==
  [r \in 1..(q + 2) |-> IF (r - 1) \in DOMAIN count THEN count[r - 1] ELSE 0]

registerHistogram(M, m, q) ==
  LET used == {M[i] : i \in 1..m}
      count == [r \in used |-> Cardinality({i \in 1..m : M[i] = r})]
  IN  [indexes |-> used, C |-> HistogramOf(count, q)]

sparseRegisterHistogram(sparseList, p, m, q) ==
  LET used == {DecodedHash[p][e].rank : e \in sparseList}
      count == [r \in used |-> Cardinality({e \in sparseList : DecodedHash[p][e].rank = r})]
      C == HistogramOf(count, q)
  IN  [indexes |-> used \cup {0},
       C |-> [C EXCEPT ![1] = @ + m - Cardinality(sparseList)]]

\* ertlCardinality() up to its histogram: p, q, m, the ranks that index C and
\* the entries of C (an index beyond q + 1 writes outside the vector)
ertlCardinality(self) ==
  IF self.sparse
  THEN LET q == 64 - pPrime
           h == sparseRegisterHistogram(self.sparseList, self.p, mPrime, q)
       IN  [kind |-> "ertlCardinality", sparse |-> TRUE, p |-> self.p, q |-> q, m |-> mPrime,
            indexes |-> h.indexes, C |-> h.C]
  ELSE LET q == 64 - self.p
           h == registerHistogram(self.M, self.m, q)
       IN  [kind |-> "ertlCardinality", sparse |-> FALSE, p |-> self.p, q |-> q, m |-> self.m,
            indexes |-> h.indexes, C |-> h.C]

---------------------------------------------------------------------------
(* Counters in use: hll[i] is the counter i, seen[i] the keys it has       *)
(* observed since it was constructed or last reset, hist[i] how it got     *)
(* there, cons[i] the sparse argument it was constructed with, err the     *)
(* outcome of the last call, allowed[i] the keys the caller feeds to i.    *)

Init ==
  /\ cons \in {c \in [Inst -> BOOLEAN] : c["A"]}
  /\ hll = [i \in Inst |-> HyperLogLogPlusMinus(MinPrecision, cons[i])]
  /\ seen = [i \in Inst |-> {}]
  /\ hist = [i \in Inst |-> "constructed"]
  /\ err = "none"
  /\ est = NoEstimate
  /\ allowed = [i \in Inst |-> Keys]
  /\ cp = MinPrecision /\ ch = Zero(64) /\ cenc = Zero(32)
  /\ cdec = [idx |-> 0, rank |-> 0] /\ cpc = "unused"

Add(i, k) ==
  /\ k \in allowed[i]
  /\ hll' = [hll EXCEPT ![i] = add(hll[i], k)]
  /\ seen' = [seen EXCEPT ![i] = @ \cup {k}]
  /\ err' = "none"
  /\ est' = NoEstimate
  /\ UNCHANGED <<hist, cons, allowed>>
  /\ UNCHANGED codecVars

Merge(i, j) ==
  /\ i # j
  /\ est' = NoEstimate
  /\ UNCHANGED <<cons, allowed>>
  /\ UNCHANGED codecVars
  /\ IF merge_throws(hll[i], hll[j])
     THEN err' = "invalid_argument" /\ UNCHANGED <<seen, hist>>
     ELSE /\ err' = "none"
          /\ seen' = [seen EXCEPT ![i] = @ \cup seen[j]]
          /\ hist' = [hist EXCEPT ![i] = "merged"]
  /\ hll' = [hll EXCEPT ![i] = merge(hll[i], hll[j])]

Reset(i) ==
  /\ hll' = [hll EXCEPT ![i] = reset(hll[i])]
  /\ seen' = [seen EXCEPT ![i] = {}]
  /\ hist' = [hist EXCEPT ![i] = "reset"]
  /\ err' = "none"
  /\ est' = NoEstimate
  /\ UNCHANGED <<cons, allowed>>
  /\ UNCHANGED codecVars

Next ==
  \/ \E i \in Inst, k \in KeyIds : Add(i, k)
  \/ \E i \in Inst, j \in Inst : Merge(i, j)
  \/ \E i \in Inst : Reset(i)

Spec == Init /\ [][Next]_vars

\* counters of unequal precision
InitMismatch ==
  /\ cons \in {c \in [Inst -> BOOLEAN] : c["A"]}
  /\ \E q \in [Inst -> ModelPrecisions] :
       /\ q["A"] # q["B"]
       /\ hll = [i \in Inst |-> HyperLogLogPlusMinus(q[i], cons[i])]
  /\ seen = [i \in Inst |-> {}]
  /\ hist = [i \in Inst |-> "constructed"]
  /\ err = "none"
  /\ est = NoEstimate
  /\ allowed = [i \in Inst |-> Keys]
  /\ cp = MinPrecision /\ ch = Zero(64) /\ cenc = Zero(32)
  /\ cdec = [idx |-> 0, rank |-> 0] /\ cpc = "unused"

SpecMismatch == InitMismatch /\ [][Next]_vars

\* counters that grow by merging: A is fed the keys 5..9, B the keys 1..4
InitGrow ==
  /\ cons = [i \in Inst |-> TRUE]
  /\ hll = [i \in Inst |-> HyperLogLogPlusMinus(MinPrecision, cons[i])]
  /\ seen = [i \in Inst |-> {}]
  /\ hist = [i \in Inst |-> "constructed"]
  /\ err = "none"
  /\ est = NoEstimate
  /\ allowed = [i \in Inst |-> IF i = "A" THEN 5..9 ELSE 1..4]
  /\ cp = MinPrecision /\ ch = Zero(64) /\ cenc = Zero(32)
  /\ cdec = [idx |-> 0, rank |-> 0] /\ cpc = "unused"

SpecGrow == InitGrow /\ [][Next]_vars

\* counters whose estimators are called: A is fed the keys 1, 2 and 5,
\* B the keys 4, 6, 7 and 8
InitEstimate ==
  /\ cons \in {c \in [Inst -> BOOLEAN] : c["A"]}
  /\ hll = [i \in Inst |-> HyperLogLogPlusMinus(MinPrecision, cons[i])]
  /\ seen = [i \in Inst |-> {}]
  /\ hist = [i \in Inst |-> "constructed"]
  /\ err = "none"
  /\ est = NoEstimate
  /\ allowed = [i \in Inst |-> IF i = "A" THEN {1, 2, 5} ELSE {4, 6, 7, 8}]
  /\ cp = MinPrecision /\ ch = Zero(64) /\ cenc = Zero(32)
  /\ cdec = [idx |-> 0, rank |-> 0] /\ cpc = "unused"

CallCardinality(i) ==
  /\ est' = cardinality(hll[i])
  /\ err' = "none"
  /\ UNCHANGED <<hll, seen, hist, cons, allowed>>
  /\ UNCHANGED codecVars

CallErtlCardinality(i) ==
  /\ est' = ertlCardinality(hll[i])
  /\ err' = "none"
  /\ UNCHANGED <<hll, seen, hist, cons, allowed>>
  /\ UNCHANGED codecVars

NextEstimate ==
  \/ Next
  \/ \E i \in Inst : CallCardinality(i)
  \/ \E i \in Inst : CallErtlCardinality(i)

SpecEstimate == InitEstimate /\ [][NextEstimate]_vars

---------------------------------------------------------------------------
(* Properties of the counter *)

\* the registers a counter stands for: M if dense, the decoded sparse list otherwise
RegisterView(h) ==
  IF h.sparse THEN addToRegistersLoop(ZeroRegisters(h.m), h.p, h.sparseList) ELSE h.M

\* add(words): the keys of S added one after the other, smallest first
RECURSIVE AddAll(_, _)
AddAll(self, S) ==
  IF S = {} THEN self
  ELSE LET k == CHOOSE x \in S : \A y \in S : x <= y
       IN  AddAll(add(self, k), S \ {k})

SparseIndex(e) == extractHighBits(e, pPrime)

\* C2: a sparse counter holds at most one encoded word per 25-bit sparse index.
C2_SparseUniqueness ==
  \A i \in Inst :
    hll[i].sparse =>
      \A e1, e2 \in hll[i].sparseList : SparseIndex(e1) = SparseIndex(e2) => e1 = e2

\* C3: add(k) of a key the counter has already observed changes neither the
\* mode nor the sparse list nor any register.
C3_AddIdempotent ==
  [][\A i \in Inst, k \in KeyIds : (k \in seen[i] /\ Add(i, k)) => hll'[i] = hll[i]]_vars

\* C4: a counter that has only been fed by add since its construction is in
\* the state that adding the same keys in increasing order gives: the order
\* of the add calls does not show in the mode, the sparse list or the registers.
C4_OrderIndependent ==
  \A i \in Inst :
    hist[i] = "constructed" =>
      hll[i] = AddAll(HyperLogLogPlusMinus(hll[i].p, cons[i]), seen[i])

\* a sparse-constructed counter was promoted part-way through its keys
C4_Witness ==
  /\ hist["A"] = "constructed"
  /\ cons["A"]
  /\ ~hll["A"].sparse
  /\ Cardinality(seen["A"]) > (hll["A"].m \div 4) + 1
  /\ {1, 2} \subseteq seen["A"]

\* the registers switchToNormalRepresentation gives (those the counter has if
\* add has already switched it)
PromotedRegisters(h) == IF h.sparse THEN switchToNormalRepresentation(h).M ELSE h.M

\* C5: the registers that promotion makes of a counter constructed sparse and
\* fed a key stream equal, register by register, those of a counter
\* constructed dense and fed the same keys.
C5_PromotionEquivalence ==
  \A i, j \in Inst :
    (/\ hist[i] = "constructed" /\ hist[j] = "constructed"
     /\ cons[i] /\ ~cons[j]
     /\ hll[i].p = hll[j].p
     /\ seen[i] = seen[j])
    => PromotedRegisters(hll[i]) = hll[j].M

\* add has promoted the sparse-constructed counter, and the dense-constructed
\* one has seen the same keys, a flag=1 word among them
C5_Witness ==
  /\ hist["A"] = "constructed" /\ hist["B"] = "constructed"
  /\ cons["A"] /\ ~cons["B"]
  /\ ~hll["A"].sparse
  /\ seen["A"] = seen["B"]
  /\ 5 \in seen["A"]

\* C6: when A has received s1 and B has received s2, the register view of A
\* after A.merge(B) is the register view of one counter that received s1
\* followed by s2, whatever the modes of A and B.
C6_LosslessMerge ==
  [][\A i, j \in Inst :
       (/\ hist[i] = "constructed" /\ hist[j] = "constructed"
        /\ hll[i].p = hll[j].p
        /\ Merge(i, j))
       => RegisterView(hll'[i]) =
            RegisterView(AddAll(AddAll(HyperLogLogPlusMinus(hll[i].p, TRUE), seen[i]), seen[j]))]_vars

\* a dense counter has been merged into a sparse one with other keys
C6_Witness ==
  /\ hist["A"] = "merged" /\ hist["B"] = "constructed"
  /\ ~cons["B"]
  /\ ~hll["A"].sparse
  /\ Cardinality(seen["A"]) <= hll["A"].m \div 4
  /\ seen["B"] # {} /\ seen["A"] \ seen["B"] # {}
  /\ RegisterView(hll["A"]) # RegisterView(hll["B"])

\* C7: A.merge(B) leaves A in the state B.merge(A) leaves B in.
C7_MergeCommutes ==
  [][\A i, j \in Inst :
       (hll[i].p = hll[j].p /\ Merge(i, j)) => hll'[i] = merge(hll[j], hll[i])]_vars

\* a sparse counter has been merged into a dense one, both holding keys
C7_Witness ==
  /\ hist["B"] = "merged"
  /\ ~cons["B"]
  /\ hll["A"].sparse
  /\ seen["A"] # {} /\ seen["A"] \subseteq seen["B"] /\ seen["B"] \ seen["A"] # {}

\* the counters at hand
Reached == {hll[i] : i \in Inst}

\* C8: for counters a, b, c of equal precision, merging b into a and then c
\* into the result gives the state that merging c into b and then that into
\* a gives.
C8_MergeAssociative ==
  \A a, b, c \in Reached :
    (a.p = b.p /\ b.p = c.p) =>
      merge(merge(a, b), c) = merge(a, merge(b, c))

\* C9: merge of counters of unequal precision fails and leaves both counters
\* as they were.
C9_MismatchAtomic ==
  [][\A i, j \in Inst :
       (hll[i].p # hll[j].p /\ Merge(i, j)) => (err' = "invalid_argument" /\ hll' = hll)]_vars

\* a merge has failed on two counters that hold keys
C9_Witness ==
  /\ err = "invalid_argument"
  /\ hll["A"].p # hll["B"].p
  /\ seen["A"] # {} /\ seen["B"] # {}

\* C10: a sparse counter holds at most m/4 encoded words.
C10_SparseSizeBound ==
  \A i \in Inst :
    hll[i].sparse => Cardinality(hll[i].sparseList) <= hll[i].m \div 4

---------------------------------------------------------------------------
(* Encoding one hash and decoding it again *)

\* bit positions (LSB 0 numbering) the hashes of SpecCodec are built from
CodecPositions == {63, 60, 59, 58, 46, 45, 40, 39, 38, 37, 1, 0}

CodecHashes == {WordOf(S, 64) : S \in {T \in SUBSET CodecPositions : Cardinality(T) <= MaxOnes}}

NoInstances == <<>>

CodecInit ==
  /\ cp \in MinPrecision..MaxPrecision
  /\ ch \in CodecHashes
  /\ cenc = Zero(32)
  /\ cdec = [idx |-> 0, rank |-> 0]
  /\ cpc = "hash"
  /\ hll = NoInstances /\ seen = NoInstances /\ hist = NoInstances
  /\ cons = NoInstances /\ err = "none" /\ allowed = NoInstances
  /\ est = NoEstimate

Encode ==
  /\ cpc = "hash"
  /\ cenc' = encodeHashIn32Bit(ch, cp)
  /\ cpc' = "encoded"
  /\ UNCHANGED <<cp, ch, cdec>>
  /\ UNCHANGED hllVars

Decode ==
  /\ cpc = "encoded"
  /\ cdec' = getIndexAndRankFromEncodedHash(cenc, cp)
  /\ cpc' = "decoded"
  /\ UNCHANGED <<cp, ch, cenc>>
  /\ UNCHANGED hllVars

CodecNext == Encode \/ Decode

SpecCodec == CodecInit /\ [][CodecNext]_vars

---------------------------------------------------------------------------
(* C1 *)

\* index(h, p): the number held by the top p bits of h
RefIndex(h, p) == ToNat(SubSeq(h, 1, p))

\* rank(h, p): one plus the number of zero bits that follow the top p bits
\* of h before its next one-bit, 64 - p + 1 when no one-bit follows
RefRank(h, p) ==
  LET ones == {i \in (p + 1)..64 : h[i] = 1}
  IN  IF ones = {} THEN 64 - p + 1
      ELSE (CHOOSE i \in ones : \A k \in ones : i <= k) - p

\* the encoding took the flag=1 branch: its lowest bit is set
Flagged(e) == e[32] = 1

\* C1: decoding the encoding of a 64-bit hash h under precision p gives
\* idx = h >> (64-p) and rank = clz64((h << p) | (2^p - 1)) + 1, whichever
\* branch (flag = 1 or flag = 0) the encoder took.
C1_RoundTrip ==
  cpc = "decoded" =>
    /\ cdec.idx = RefIndex(ch, cp)
    /\ cdec.rank = RefRank(ch, cp)
    /\ get_index(ch, cp) = RefIndex(ch, cp)
    /\ get_rank(ch, cp) = RefRank(ch, cp)

\* a flag=1 encoding that packs a rank above 1 has been decoded
C1_Witness ==
  /\ cpc = "decoded"
  /\ Flagged(cenc)
  /\ cp = 14
  /\ cdec.rank > pPrime - cp + 1
  /\ cdec.idx > 0

---------------------------------------------------------------------------
(* Properties of the representations *)

\* index(h, p) and rank(h, p) of the hash of every key, computed once
RefIndexAndRank ==
  [p \in ModelPrecisions |->
    [k \in KeyIds |-> [idx |-> RefIndex(bit_mixer(k), p), rank |-> RefRank(bit_mixer(k), p)]]]

\* the largest rank(h, p) among the keys of S whose hash has index i, 0 if none
MaxRankAt(S, p, i) ==
  LET ranks == {RefIndexAndRank[p][k].rank : k \in {x \in S : RefIndexAndRank[p][x].idx = i}}
  IN  IF ranks = {} THEN 0 ELSE CHOOSE r \in ranks : \A r2 \in ranks : r2 <= r

\* C13: in a dense counter every register M[i] holds the largest rank(h, p)
\* among the keys the counter has observed (added, carried over by promotion
\* or brought in by merge) whose hash has index i, 0 if there is none, and
\* so lies in 0..64-p+1.
C13_RegisterMeaning ==
  \A n \in Inst :
    ~hll[n].sparse =>
      \A i \in 0..(hll[n].m - 1) :
        /\ hll[n].M[i + 1] = MaxRankAt(seen[n], hll[n].p, i)
        /\ hll[n].M[i + 1] >= 0
        /\ hll[n].M[i + 1] <= 64 - hll[n].p + 1

\* a dense counter holds, for index 10, the rank 61 of key 5 although it has
\* also observed key 4 of rank 1 there, and has been merged into
C13_Witness ==
  /\ ~hll["B"].sparse
  /\ hist["B"] = "merged"
  /\ {4, 5} \subseteq seen["B"]
  /\ seen["A"] # {} /\ seen["A"] \subseteq seen["B"]
  /\ hll["B"].M[11] = 61

\* C14: a sparse counter has no registers; a dense counter has an empty
\* sparse list and exactly m = 2^p registers.
C14_OneRepresentation ==
  \A n \in Inst :
    /\ hll[n].m = 2 ^ hll[n].p
    /\ hll[n].sparse => Len(hll[n].M) = 0
    /\ ~hll[n].sparse => (hll[n].sparseList = {} /\ Len(hll[n].M) = hll[n].m)

\* a counter constructed sparse has been promoted by add, the other is
\* sparse and holds words
C14_Witness ==
  /\ cons["A"] /\ hist["A"] = "constructed"
  /\ ~hll["A"].sparse
  /\ hll["B"].sparse /\ hll["B"].sparseList # {}

---------------------------------------------------------------------------
(* Properties of the estimators *)

\* C11: the register count the sparse-mode estimators use is 2^pPrime =
\* 33554432, the number of 25-bit sparse indexes.
C11_MPrime ==
  (est.kind # "none" /\ est.sparse) =>
    (est.m = 2 ^ pPrime /\ est.m = 33554432)

\* round to nearest of a double
RoundToNearest(x) == (x + (FixedOne \div 2)) \div FixedOne

\* C12: on a linear-counting branch cardinality() returns m * ln(m / v)
\* rounded to nearest.
C12_LinearCountingRounded ==
  (est.kind = "cardinality" /\ est.branch = "linear") =>
    est.value = RoundToNearest(est.lc)

RECURSIVE SumUpTo(_, _)
SumUpTo(C, n) == IF n = 0 THEN 0 ELSE C[n] + SumUpTo(C, n - 1)

\* C16: every rank that indexes the histogram C of ertlCardinality() lies in
\* 0..q+1, C has q + 2 entries, and they sum to the m of the estimator.
C16_HistogramInRange ==
  est.kind = "ertlCardinality" =>
    /\ est.q = (IF est.sparse THEN 64 - pPrime ELSE 64 - est.p)
    /\ Len(est.C) = est.q + 2
    /\ \A r \in est.indexes : 0 <= r /\ r <= est.q + 1
    /\ SumUpTo(est.C, Len(est.C)) = est.m

=============================================================================
